---- MODULE Spec2Model ----
(***************************************************************************)
(* A model of the Flickerfy pipeline of src/index.tsx: upload, object      *)
(* detection, prompt sequencing and the chained frame generation with its  *)
(* retry / backoff / fallback policy, as driven by the App component.      *)
(*                                                                         *)
(* Every stretch of a handler between two awaits is one action: JavaScript *)
(* runs it to completion and React 18 (createRoot, line 814) batches the   *)
(* state setters it calls into one render.                                 *)
(***************************************************************************)
EXTENDS Integers, Sequences, FiniteSets, TLC

\* JavaScript null / undefined versus a value: the empty and the one-element
\* sequence.
None == <<>>
Some(x) == <<x>>
IsSome(o) == Len(o) = 1
Get(o) == o[1]

--------------------------------------------------------------------------
\* Texts are sequences of one-character strings.

IsWs(c) == c \in {" ", "\n"}

RECURSIVE SkipWs(_, _)
\* The first position >= p of s that holds no white space.
SkipWs(s, p) == IF p <= Len(s) /\ IsWs(s[p]) THEN SkipWs(s, p + 1) ELSE p

RECURSIVE SkipWsBack(_, _)
\* The last position <= p of s that holds no white space (0 when none).
SkipWsBack(s, p) == IF p >= 1 /\ IsWs(s[p]) THEN SkipWsBack(s, p - 1) ELSE p

\* String.prototype.trim
Trim(s) == SubSeq(s, SkipWs(s, 1), SkipWsBack(s, Len(s)))

\* Whether the literal lit occurs in s at position p.
MatchAt(s, p, lit) ==
    /\ p >= 1
    /\ p + Len(lit) - 1 <= Len(s)
    /\ \A k \in 1..Len(lit) : s[p + k - 1] = lit[k]

\* The least / greatest element of a non-empty set of integers.
Least(S) == CHOOSE x \in S : \A y \in S : x <= y
Greatest(S) == CHOOSE x \in S : \A y \in S : x >= y

\* The backquote character, which a TLA+ string cannot hold, is written "~".
Tick == "~"
FenceOpen == <<Tick, Tick, Tick, "j", "s", "o", "n", "\n">>
FenceClose == <<"\n", Tick, Tick, Tick>>

\* A match of a regular expression with two capture groups: where it begins
\* and what each group captured (None: the group did not take part).
NoMatch == [found |-> FALSE, at |-> 0, g1 |-> None, g2 |-> None]

\* The fence alternative, ~~~json\n([\s\S]*?)\n~~~, tried at position p: the lazy star stops at the
\* first closing fence.
FenceAt(s, p) ==
    LET from == p + Len(FenceOpen)
        closes == {q \in from..Len(s) : MatchAt(s, q, FenceClose)}
    IN  IF MatchAt(s, p, FenceOpen) /\ closes # {}
        THEN [found |-> TRUE, at |-> p,
              g1 |-> Some(SubSeq(s, from, Least(closes) - 1)), g2 |-> None]
        ELSE NoMatch

\* (\[[\s\S]*?\]) tried at position p: from the '[' at p to the first ']'
\* after it.
LazyArrayAt(s, p) ==
    LET closes == {k \in (p + 1)..Len(s) : s[k] = "]"}
    IN  IF p <= Len(s) /\ s[p] = "[" /\ closes # {}
        THEN [found |-> TRUE, at |-> p, g1 |-> None,
              g2 |-> Some(SubSeq(s, p, Least(closes)))]
        ELSE NoMatch

\* (\[[\s\S]*?{.*}[\s\S]*?\]) tried at position p: the first lazy star takes
\* the first '{' from which the rest can match, the greedy .* (which crosses
\* no line break) the last '}' on that line that a ']' follows, the second
\* lazy star the first ']' after that '}'.
ObjectArrayAt(s, p) ==
    LET Closers(i) == {j \in (i + 1)..Len(s) :
                          /\ s[j] = "}"
                          /\ \A m \in (i + 1)..(j - 1) : s[m] # "\n"
                          /\ \E k \in (j + 1)..Len(s) : s[k] = "]"}
        opens == {i \in (p + 1)..Len(s) : s[i] = "{" /\ Closers(i) # {}}
        i0 == Least(opens)
        j0 == Greatest(Closers(i0))
        k0 == Least({k \in (j0 + 1)..Len(s) : s[k] = "]"})
    IN  IF p <= Len(s) /\ s[p] = "[" /\ opens # {}
        THEN [found |-> TRUE, at |-> p, g1 |-> None, g2 |-> Some(SubSeq(s, p, k0))]
        ELSE NoMatch

\* The expression of detectObjects and the one of generatePrompts tried at
\* position p: the fence alternative first, then the array alternative.
DetectRegexAt(s, p) == IF FenceAt(s, p).found THEN FenceAt(s, p) ELSE ObjectArrayAt(s, p)
PromptRegexAt(s, p) == IF FenceAt(s, p).found THEN FenceAt(s, p) ELSE LazyArrayAt(s, p)

\* String.prototype.match without the g flag: the match at the leftmost
\* position at which the expression matches.
MatchDetect(s) ==
    LET hits == {p \in 1..Len(s) : DetectRegexAt(s, p).found}
    IN  IF hits = {} THEN NoMatch ELSE DetectRegexAt(s, Least(hits))
MatchPrompts(s) ==
    LET hits == {p \in 1..Len(s) : PromptRegexAt(s, p).found}
    IN  IF hits = {} THEN NoMatch ELSE PromptRegexAt(s, Least(hits))

\* jsonMatch[1] || jsonMatch[2]: group 1 unless it is undefined or the empty
\* string, group 2 (possibly undefined) otherwise.
FirstTruthyGroup(m) == IF IsSome(m.g1) /\ Get(m.g1) # <<>> THEN m.g1 ELSE m.g2

\* The text handed to JSON.parse: the trimmed response text, replaced by the
\* captured group when the expression matches. None stands for undefined.
ExtractDetect(text) ==
    LET jsonMatch == MatchDetect(Trim(text))
    IN  IF jsonMatch.found THEN FirstTruthyGroup(jsonMatch) ELSE Some(Trim(text))
ExtractPrompts(text) ==
    LET jsonMatch == MatchPrompts(Trim(text))
    IN  IF jsonMatch.found THEN FirstTruthyGroup(jsonMatch) ELSE Some(Trim(text))

--------------------------------------------------------------------------
\* JSON.parse on the grammar of arrays, objects, strings, unsigned decimal
\* numbers and null. A value is [t, v]: t its type, v its content.

JNull == [t |-> "null", v |-> <<>>]
JArr(elems) == [t |-> "arr", v |-> elems]
JObj(members) == [t |-> "obj", v |-> members]
JStr(chars) == [t |-> "str", v |-> chars]
JNum(chars) == [t |-> "num", v |-> chars]

Fail == [ok |-> FALSE, val |-> JNull, pos |-> 0]
Ok(val, pos) == [ok |-> TRUE, val |-> val, pos |-> pos]

IsDigit(c) == c \in {"0", "1", "2", "3", "4", "5", "6", "7", "8", "9"}

RECURSIVE StringEnd(_, _)
\* The position of the quote that closes a string whose content starts at p;
\* 0 when the string is not closed, holds a raw line break or a bad escape.
StringEnd(s, p) ==
    IF p > Len(s) THEN 0
    ELSE IF s[p] = "\"" THEN p
    ELSE IF s[p] = "\n" THEN 0
    ELSE IF s[p] = "\\"
         THEN IF p + 1 <= Len(s) /\ s[p + 1] \in {"\"", "\\", "n"}
              THEN StringEnd(s, p + 2) ELSE 0
    ELSE StringEnd(s, p + 1)

RECURSIVE Unescape(_)
Unescape(s) ==
    IF s = <<>> THEN <<>>
    ELSE IF s[1] = "\\"
         THEN <<IF s[2] = "n" THEN "\n" ELSE s[2]>> \o Unescape(SubSeq(s, 3, Len(s)))
    ELSE <<s[1]>> \o Unescape(Tail(s))

RECURSIVE DigitsEnd(_, _)
\* The first position >= p of s that holds no digit.
DigitsEnd(s, p) == IF p <= Len(s) /\ IsDigit(s[p]) THEN DigitsEnd(s, p + 1) ELSE p

ParseNumber(s, p) ==
    LET q == IF s[p] = "0" THEN p + 1 ELSE DigitsEnd(s, p)
        r == IF q <= Len(s) /\ s[q] = "." THEN DigitsEnd(s, q + 1) ELSE q
    IN  IF q <= Len(s) /\ s[q] = "." /\ r = q + 1 THEN Fail
        ELSE Ok(JNum(SubSeq(s, p, r - 1)), r)

RECURSIVE ParseValue(_, _), ParseElements(_, _, _), ParseMembers(_, _, _)

\* The value that starts at position p of s, and the position after it.
ParseValue(s, p) ==
    IF p > Len(s) THEN Fail
    ELSE IF s[p] = "["
         THEN LET q == SkipWs(s, p + 1)
              IN  IF q <= Len(s) /\ s[q] = "]" THEN Ok(JArr(<<>>), q + 1)
                  ELSE ParseElements(s, q, <<>>)
    ELSE IF s[p] = "{"
         THEN LET q == SkipWs(s, p + 1)
              IN  IF q <= Len(s) /\ s[q] = "}" THEN Ok(JObj(<<>>), q + 1)
                  ELSE ParseMembers(s, q, <<>>)
    ELSE IF s[p] = "\""
         THEN LET e == StringEnd(s, p + 1)
              IN  IF e = 0 THEN Fail
                  ELSE Ok(JStr(Unescape(SubSeq(s, p + 1, e - 1))), e + 1)
    ELSE IF IsDigit(s[p]) THEN ParseNumber(s, p)
    ELSE IF MatchAt(s, p, <<"n", "u", "l", "l">>) THEN Ok(JNull, p + 4)
    ELSE Fail

\* The elements of an array from position p on, acc those already read.
ParseElements(s, p, acc) ==
    LET r == ParseValue(s, p)
        q == SkipWs(s, r.pos)
    IN  IF ~r.ok \/ q > Len(s) THEN Fail
        ELSE IF s[q] = "," THEN ParseElements(s, SkipWs(s, q + 1), Append(acc, r.val))
        ELSE IF s[q] = "]" THEN Ok(JArr(Append(acc, r.val)), q + 1)
        ELSE Fail

\* The members of an object from position p on, acc those already read.
ParseMembers(s, p, acc) ==
    LET e == IF p <= Len(s) /\ s[p] = "\"" THEN StringEnd(s, p + 1) ELSE 0
        c == SkipWs(s, e + 1)
        r == ParseValue(s, SkipWs(s, c + 1))
        q == SkipWs(s, r.pos)
        m == [k |-> Unescape(SubSeq(s, p + 1, e - 1)), val |-> r.val]
    IN  IF e = 0 \/ c > Len(s) THEN Fail
        ELSE IF s[c] # ":" THEN Fail
        ELSE IF ~r.ok \/ q > Len(s) THEN Fail
        ELSE IF s[q] = "," THEN ParseMembers(s, SkipWs(s, q + 1), Append(acc, m))
        ELSE IF s[q] = "}" THEN Ok(JObj(Append(acc, m)), q + 1)
        ELSE Fail

\* JSON.parse(jsonText): ok is FALSE where JSON.parse throws a SyntaxError,
\* which it does for undefined too.
JSONParse(jsonText) ==
    IF ~IsSome(jsonText) THEN Fail
    ELSE LET s == Get(jsonText)
             r == ParseValue(s, SkipWs(s, 1))
         IN  IF r.ok /\ SkipWs(s, r.pos) = Len(s) + 1 THEN r ELSE Fail

IsArray(val) == val.t = "arr"

\* val.length of an array.
Length(val) == Len(val.v)

\* JavaScript truthiness of a parsed value.
Truthy(val) ==
    CASE val.t = "null" -> FALSE
      [] val.t = "str" -> val.v # <<>>
      [] val.t = "num" -> \E k \in 1..Len(val.v) : val.v[k] \notin {"0", "."}
      [] OTHER -> TRUE

--------------------------------------------------------------------------
\* Program constants.

NUM_FRAMES_TO_GENERATE == 6
maxRetries == 3
InitialDelay == 2000
\* The number of objects the detection request asks for at most.
ObjectsAskedFor == 5

\* Bounds of the model.

\* The prompt arrays the service answers with hold 0 to MaxFewPrompts
\* elements, or the NUM_FRAMES_TO_GENERATE elements asked for.
MaxFewPrompts == 2
\* The detection arrays the service answers with hold up to MaxObjects
\* objects, or one more than the ObjectsAskedFor asked for; the user clicks
\* one of the first MaxObjects object tags.
MaxObjects == 2
\* The encodings of GIFs in progress at a time.
MaxEncodings == 2

--------------------------------------------------------------------------
\* Image payloads (the base64 text of an image) and MIME types.

Payload(kind, n) == [k |-> kind, n |-> n]
\* The base64 text readAsDataURL yields for the uploaded photograph.
OrigData == Payload("file", 0)
\* The image data the service generates when asked for frame n.
GenData(n) == Payload("gen", n)
\* The empty string and the value undefined.
EmptyData == Payload("empty", 0)
Undefined == Payload("undefined", 0)

ImagePrefix == <<"i", "m", "a", "g", "e", "/">>
MimeJpeg == ImagePrefix \o <<"j", "p", "e", "g">>
MimePng == ImagePrefix \o <<"p", "n", "g">>
MimeText == <<"t", "e", "x", "t", "/", "p", "l", "a", "i", "n">>

\* String.prototype.startsWith
StartsWith(s, prefix) == MatchAt(s, 1, prefix)

\* The files a user can pick or drop: a photograph, a text file, and a file
\* whose type the browser does not know.
Files == { [name |-> "photo", type |-> MimeJpeg, base64 |-> OrigData],
           [name |-> "notes", type |-> MimeText, base64 |-> Payload("file", 1)],
           [name |-> "blob", type |-> <<>>, base64 |-> Payload("file", 2)] }

\* fileToGenerativePart once the FileReader has loaded the file.
fileToGenerativePart(file) == [data |-> file.base64, mimeType |-> file.type]

base64ToGenerativePart(base64Data, mimeType) == [data |-> base64Data, mimeType |-> mimeType]

--------------------------------------------------------------------------
\* Messages are sequences of text fragments; includes() looks for a fragment.

Includes(message, fragment) == \E p \in 1..Len(message) : message[p] = fragment

\* What a request rejects with or a block throws: an Error carrying a
\* message, a value without a message property (a string, a plain object),
\* or null / undefined.
Thrown(shape, message) == [shape |-> shape, message |-> message]
ErrorOf(message) == Thrown("Error", message)
NothingThrown == Thrown("none", <<>>)

\* Reading .message of a null or undefined value, and calling a method of
\* an undefined .message, each throw a TypeError.
TypeErrorOf(e) ==
    IF e.shape = "nullish"
    THEN ErrorOf(<<"Cannot read properties of undefined (reading 'message')">>)
    ELSE ErrorOf(<<"Cannot read properties of undefined (reading 'includes')">>)

\* err.message as setError receives it: None where it is undefined.
MessageOf(e) == IF e.shape = "Error" THEN Some(e.message) ELSE None

--------------------------------------------------------------------------
\* What the generation service can answer.

Quote(chars) == <<"\"">> \o chars \o <<"\"">>
DigitChar(n) == <<"0", "1", "2", "3", "4", "5", "6", "7", "8", "9">>[n + 1]

PromptItem(n) == Quote(<<"p", DigitChar(n)>>)
RECURSIVE PromptItems(_)
\* "p1","p2",...,"pn"
PromptItems(n) ==
    IF n = 0 THEN <<>>
    ELSE IF n = 1 THEN PromptItem(1)
    ELSE PromptItems(n - 1) \o <<",">> \o PromptItem(n)
\* ["p1","p2",...,"pn"]
PromptArray(n) == <<"[">> \o PromptItems(n) \o <<"]">>

ObjectItem(n) == <<"{">> \o Quote(<<"n", "a", "m", "e">>) \o <<":">>
                    \o Quote(<<"o", DigitChar(n)>>) \o <<"}">>
RECURSIVE ObjectItems(_)
\* {"name":"o1"},...,{"name":"on"}
ObjectItems(n) ==
    IF n = 0 THEN <<>>
    ELSE IF n = 1 THEN ObjectItem(1)
    ELSE ObjectItems(n - 1) \o <<",">> \o ObjectItem(n)
\* [{"name":"o1"},...,{"name":"on"}]
ObjectArray(n) == <<"[">> \o ObjectItems(n) \o <<"]">>

Fenced(text) == FenceOpen \o text \o FenceClose
Prose == <<"S", "u", "r", "e", ":", " ">>

\* A response of a text request: its text, None where the response has none.
PromptTexts ==
    {Some(PromptArray(n)) : n \in 0..MaxFewPrompts}
    \cup { Some(PromptArray(NUM_FRAMES_TO_GENERATE)),
           Some(Fenced(PromptArray(2))),
           Some(Prose \o PromptArray(1) \o <<"\n">>),
           Some(ObjectItem(1)),
           Some(Prose),
           None }

DetectTexts ==
    {Some(ObjectArray(n)) : n \in 0..MaxObjects}
    \cup { Some(ObjectArray(ObjectsAskedFor + 1)),
           Some(Fenced(ObjectArray(1))),
           Some(Prose \o ObjectArray(1)),
           Some(ObjectItem(1)),
           Some(Prose),
           None }

\* Response texts for the extraction and the parsing on their own: an
\* array, an object, a word or nothing; bare or fenced; after nothing, after prose, or
\* after prose that holds a bracket pair; before nothing, a line break, or
\* more prose.
Note == <<"S", "e", "e", " ", "[", "1", "]", ":", " ">>
\* [["p1"]]
NestedArray == <<"[">> \o PromptArray(1) \o <<"]">>
\* ["a]"]
BracketInString == <<"[">> \o Quote(<<"a", "]">>) \o <<"]">>
\* [{"name":"o1"},
\* {"name":["p1"]}]
ObjectsWithList ==
    <<"[">> \o ObjectItem(1) \o <<",", "\n", "{">> \o Quote(<<"n", "a", "m", "e">>)
            \o <<":">> \o PromptArray(1) \o <<"}", "]">>
Leads == {<<>>, Prose, Note}
Cores == {PromptArray(n) : n \in 0..MaxFewPrompts}
         \cup {ObjectArray(n) : n \in 1..MaxObjects}
         \cup {NestedArray, BracketInString, ObjectsWithList, ObjectItem(1),
               <<"p", "1">>, <<>>}
Tails == {<<>>, <<"\n">>, <<" ", "o", "k">>}
ResponseTexts ==
    {lead \o core \o tail : lead \in Leads, core \in Cores, tail \in Tails}
    \cup {lead \o Fenced(core) \o tail : lead \in Leads, core \in Cores, tail \in Tails}

\* What a request can reject with.
Rejections ==
    { ErrorOf(<<"got status: ", "429", " Too Many Requests">>),
      ErrorOf(<<"RESOURCE_EXHAUSTED", ": quota exceeded">>),
      ErrorOf(<<"Failed to fetch">>),
      Thrown("plain", <<>>),
      Thrown("nullish", <<>>) }

\* A settled request: a response (with its text, its inlineData part and its
\* finishReason, each possibly absent) or a rejection.
Outcome(kind, text, image, finishReason, thrown) ==
    [kind |-> kind, text |-> text, image |-> image,
     finishReason |-> finishReason, thrown |-> thrown]
TextResponse(text) == Outcome("response", text, None, None, NothingThrown)
ImageResponse(image, finishReason) == Outcome("response", None, image, finishReason, NothingThrown)
Rejection(thrown) == Outcome("reject", None, None, None, thrown)

FinishReasons == {None, Some("SAFETY"), Some("RESOURCE_EXHAUSTED")}

\* The answers to the request for frame n: an image, an inlineData part with
\* empty data, no inlineData part, or a rejection.
FrameOutcomes(n) ==
    { ImageResponse(Some(base64ToGenerativePart(GenData(n), MimePng)), Some("STOP")) }
    \cup { ImageResponse(Some(base64ToGenerativePart(EmptyData, MimePng)), None) }
    \cup { ImageResponse(None, r) : r \in FinishReasons }
    \cup { Rejection(e) : e \in Rejections }

--------------------------------------------------------------------------
\* The state.

VARIABLES
    ui,          \* the App component's state (the useState hooks)
    pc,          \* where the pipeline operation in flight is suspended
    inFlight,    \* how many pipeline operations have started and not ended
    imagePart,   \* the handler's imagePart, once fileToGenerativePart resolved
    gf,          \* the locals of generateFrames
    request,     \* the request the service has not settled yet
    frameLog,    \* history: how each frame of the running chain ended
    tries,       \* history: requests issued and waits made for the current frame
    lastFrame,   \* history: the frame that ended last, and how
    run,         \* history: how the session's generate action ended
    parse,       \* history: the text response parsed last, and what came of it
    sent,        \* history: the requests issued, by stage
    gifExport    \* the GIF export: the worker script, the encodings in progress

vars == <<ui, pc, inFlight, imagePart, gf, request, frameLog, tries, lastFrame, run,
          parse, sent, gifExport>>
hist == <<frameLog, tries, lastFrame, run, parse, sent>>

\* Loading messages.
NoMessage == [text |-> "", a |-> 0, b |-> 0]
Analyzing == [text |-> "Analyzing image to find prominent objects...", a |-> 0, b |-> 0]
GeneratingIdeas == [text |-> "Generating animation ideas", a |-> 0, b |-> 0]
CreatingFrame(a, b) == [text |-> "Creating animation frame a of b", a |-> a, b |-> b]

\* Error messages of the application.
InvalidFile == <<"Please upload a valid image file.">>
NoObjects == <<"Sorry, no distinct objects could be identified in the image. Please try another one.">>
SelectFirst == <<"Please select an object to animate.">>
BadDetectJson == <<"Received an invalid response from the AI when detecting objects. Please try a different image.">>
NotDetectArray == <<"Failed to detect objects in the required format.">>
BadPromptJson == <<"Received an invalid response from the AI when generating prompts.">>
NotPromptArray == <<"Failed to generate prompts in the required format.">>
NoTextProperty == <<"Cannot read properties of undefined (reading 'trim')">>
Unexpected(message) == <<"An unexpected error occurred: ">> \o message
OriginalImage == JStr(<<"Original Image">>)
WorkerFailed == <<"Could not initialize GIF generation components.">>
WorkerLoading == <<"GIF generation components are still loading. Please try again in a moment.">>
GifFailed == <<"Could not generate GIF due to a processing error.">>

\* The state resetState leaves.
ResetState ==
    [uploadedImage |-> None, detectedObjects |-> <<>>, animationPrompts |-> <<>>,
     generatedFrames |-> <<>>, isLoading |-> FALSE, loadingMessage |-> NoMessage,
     error |-> None, selectedObject |-> None, detectionComplete |-> FALSE,
     isGeneratingGif |-> FALSE]

NoImage == base64ToGenerativePart(Undefined, <<>>)

\* The locals of generateFrames while no chain runs.
NoChain ==
    [prompts |-> <<>>, i |-> 0, attempt |-> 0, delay |-> 0, newMimeType |-> <<>>,
     currentImagePart |-> NoImage,
     allFrames |-> <<>>, lastSuccessfulBase64 |-> Undefined]

\* Histories. Of the frame being generated: the requests issued, the waits
\* made, and why the attempt failed after which the loop waits or threw. Of
\* the frame that ended last: its requests and waits, its status, why its
\* last attempt failed, and the image the service returned for it. Of the
\* generate action: how it ended, with what its catch block caught or
\* generateFrames was given and returned.
NoFailure == [source |-> "none", cause |-> "none"]
NoTries == [requests |-> 0, waits |-> <<>>, failed |-> NoFailure]
NoFrame == [frame |-> 0, status |-> "none", requests |-> 0, waits |-> <<>>,
            failed |-> NoFailure, got |-> NoImage]
NoRun == [state |-> "none", thrown |-> NothingThrown, prompts |-> <<>>, frames |-> <<>>]
chainHist == <<frameLog, tries, lastFrame, run>>

\* The result of an async function: a returned value or a thrown one.
Returned(val) == [ok |-> TRUE, val |-> val, thrown |-> NothingThrown]
Threw(e) == [ok |-> FALSE, val |-> JNull, thrown |-> e]

\* Of the text request settled last: the function that issued it, the text
\* of the response (None: a response without text, or a rejection), the
\* jsonText handed to JSON.parse, the parsedResponse it gave (Fail when it
\* threw or was not reached), and what the function returned or threw.
NoParse == [stage |-> "none", text |-> None, jsonText |-> None,
            parsedResponse |-> Fail, result |-> Threw(NothingThrown)]
\* The requests issued: the detection requests of the session, the prompt
\* and frame requests of its latest generate action, and the requests the
\* service has not settled yet.
NoSent == [detect |-> 0, prompts |-> 0, frames |-> 0, outstanding |-> 0]

\* The GIF export. workerUrl: whether gifWorkerUrlRef holds the URL of the
\* worker script yet ("fetching", "ready", or "failed" when the fetch of the
\* mount effect failed and the ref stays null). encodings: the calls of
\* handleDownloadGif that have not ended, in the order they started, each
\* awaiting its images ("loading") or the encoder's 'finished' event
\* ("rendering"), with the session it was started in: "current", or
\* "earlier" once resetState has run since. downloaded (history): the
\* session of the encoding whose download was triggered last in the current
\* session, None when none was.
NoExport == [workerUrl |-> "fetching", encodings |-> <<>>, downloaded |-> None]
Encoding(stage) == [stage |-> stage, session |-> "current"]

Init ==
    /\ ui = ResetState
    /\ pc = "idle"
    /\ inFlight = 0
    /\ imagePart = None
    /\ gf = NoChain
    /\ request = None
    /\ frameLog = <<>>
    /\ tries = NoTries
    /\ lastFrame = NoFrame
    /\ run = NoRun
    /\ parse = NoParse
    /\ sent = NoSent
    /\ gifExport = NoExport

\* A request to the service: the stage that issues it, the frame it is for
\* (0 outside the chain), and the prompt and the image it carries.
Request(stage, frame, prompt, image) ==
    Some([stage |-> stage, frame |-> frame, prompt |-> prompt, image |-> image])

--------------------------------------------------------------------------
\* Upload and detection.

\* The histories describe one session: they start afresh with it. The
\* encodings in progress are not stopped: they are of an earlier session now.
NewSession ==
    /\ frameLog' = <<>>
    /\ tries' = NoTries
    /\ lastFrame' = NoFrame
    /\ run' = NoRun
    /\ parse' = NoParse
    /\ sent' = [NoSent EXCEPT !.outstanding = sent.outstanding]
    /\ gifExport' =
          [gifExport EXCEPT !.encodings = [k \in DOMAIN @ |-> [@[k] EXCEPT !.session = "earlier"]],
                            !.downloaded = None]

\* Faulty variant of processUploadedFile: the state is reset before the file
\* is looked at.
processUploadedFileResettingFirst(file) ==
    IF ~StartsWith(file.type, ImagePrefix)
    THEN /\ ui' = [ResetState EXCEPT !.error = Some(InvalidFile)]
         /\ UNCHANGED <<pc, inFlight, imagePart, gf, request, hist, gifExport>>
    ELSE /\ ui' = [ResetState EXCEPT !.isLoading = TRUE, !.uploadedImage = Some(file)]
         /\ pc' = "detectRead"
         /\ inFlight' = inFlight + 1
         /\ imagePart' = None
         /\ request' = None
         /\ NewSession
         /\ UNCHANGED gf

\* Faulty variant of processUploadedFile: resetState is not called.
processUploadedFileWithoutReset(file) ==
    IF ~StartsWith(file.type, ImagePrefix)
    THEN /\ ui' = [ui EXCEPT !.error = Some(InvalidFile)]
         /\ UNCHANGED <<pc, inFlight, imagePart, gf, request, hist, gifExport>>
    ELSE /\ ui' = [ui EXCEPT !.isLoading = TRUE, !.uploadedImage = Some(file)]
         /\ pc' = "detectRead"
         /\ inFlight' = inFlight + 1
         /\ imagePart' = None
         /\ request' = None
         /\ NewSession
         /\ UNCHANGED gf

\* processUploadedFile up to its first suspension, in the await of
\* fileToGenerativePart in runObjectDetection.
processUploadedFile(file) ==
    IF ~StartsWith(file.type, ImagePrefix)
    THEN /\ ui' = [ui EXCEPT !.error = Some(InvalidFile)]
         /\ UNCHANGED <<pc, inFlight, imagePart, gf, request, hist, gifExport>>
    ELSE /\ ui' = [ResetState EXCEPT !.isLoading = TRUE, !.uploadedImage = Some(file)]
         /\ pc' = "detectRead"
         /\ inFlight' = inFlight + 1
         /\ imagePart' = None
         /\ request' = None
         /\ NewSession
         /\ UNCHANGED gf

\* The file input, rendered while detection is not complete and disabled
\* while loading.
handleImageUpload(file) ==
    /\ ~ui.detectionComplete
    /\ ~ui.isLoading
    /\ processUploadedFile(file)

\* Faulty variant of handleDrop: a drop is processed while loading too.
handleDropWhileLoading(file) ==
    /\ ~ui.detectionComplete
    /\ processUploadedFile(file)

\* A drop on the upload section, rendered while detection is not complete.
handleDrop(file) ==
    /\ ~ui.detectionComplete
    /\ IF ui.isLoading THEN UNCHANGED vars ELSE processUploadedFile(file)

\* fileToGenerativePart when the FileReader cannot read the file (it was
\* removed or became unreadable after it was chosen): loadend fires with
\* reader.result null, the split throws inside the event callback, resolve
\* is never called and the promise has no reject, so the handler awaiting
\* it is never resumed.
FileReadFails ==
    /\ pc \in {"detectRead", "generateRead"}
    /\ pc' = "readHung"
    /\ UNCHANGED <<ui, inFlight, imagePart, gf, request, hist, gifExport>>

\* runObjectDetection from the resolution of fileToGenerativePart to the
\* detection request.
DetectRequest ==
    /\ pc = "detectRead"
    /\ imagePart' = Some(fileToGenerativePart(Get(ui.uploadedImage)))
    /\ ui' = [ui EXCEPT !.loadingMessage = Analyzing]
    /\ request' = Request("detect", 0, JNull, fileToGenerativePart(Get(ui.uploadedImage)))
    /\ pc' = "detect"
    /\ sent' = [sent EXCEPT !.detect = @ + 1, !.outstanding = @ + 1]
    /\ UNCHANGED <<inFlight, gf, chainHist, parse, gifExport>>

\* Faulty variant of detectObjects: a text that does not parse counts as an
\* empty list of objects.
detectObjectsDefaulting(o) ==
    IF o.kind = "reject" THEN Threw(o.thrown)
    ELSE IF ~IsSome(o.text) THEN Threw(ErrorOf(NoTextProperty))
    ELSE LET parsedResponse == JSONParse(ExtractDetect(Get(o.text)))
         IN  IF ~parsedResponse.ok THEN Returned(JArr(<<>>))
             ELSE IF ~IsArray(parsedResponse.val) THEN Threw(ErrorOf(NotDetectArray))
             ELSE Returned(parsedResponse.val)

\* Faulty variant of detectObjects: the array is cut to the ObjectsAskedFor
\* objects asked for.
detectObjectsCapped(o) ==
    IF o.kind = "reject" THEN Threw(o.thrown)
    ELSE IF ~IsSome(o.text) THEN Threw(ErrorOf(NoTextProperty))
    ELSE LET parsedResponse == JSONParse(ExtractDetect(Get(o.text)))
         IN  IF ~parsedResponse.ok THEN Threw(ErrorOf(BadDetectJson))
             ELSE IF ~IsArray(parsedResponse.val) THEN Threw(ErrorOf(NotDetectArray))
             ELSE IF Length(parsedResponse.val) > ObjectsAskedFor
                  THEN Returned(JArr(SubSeq(parsedResponse.val.v, 1, ObjectsAskedFor)))
             ELSE Returned(parsedResponse.val)

\* detectObjects from the settling of its request on.
detectObjects(o) ==
    IF o.kind = "reject" THEN Threw(o.thrown)
    ELSE IF ~IsSome(o.text) THEN Threw(ErrorOf(NoTextProperty))
    ELSE LET parsedResponse == JSONParse(ExtractDetect(Get(o.text)))
         IN  IF ~parsedResponse.ok THEN Threw(ErrorOf(BadDetectJson))
             ELSE IF ~IsArray(parsedResponse.val) THEN Threw(ErrorOf(NotDetectArray))
             ELSE Returned(parsedResponse.val)

\* For the histories: detectObjects applied to the settled request o.
DetectParse(o) ==
    [stage |-> "detect", text |-> o.text,
     jsonText |-> IF IsSome(o.text) THEN ExtractDetect(Get(o.text)) ELSE None,
     parsedResponse |-> IF IsSome(o.text) THEN JSONParse(ExtractDetect(Get(o.text)))
                        ELSE Fail,
     result |-> detectObjects(o)]

\* Faulty variant of runObjectDetection: an empty list of objects completes
\* the detection.
runObjectDetectionAcceptingEmpty(u, objects) ==
    LET done == [u EXCEPT !.isLoading = FALSE, !.loadingMessage = NoMessage]
    IN  IF objects.ok
        THEN [done EXCEPT !.detectedObjects = objects.val.v,
                          !.selectedObject = IF Length(objects.val) > 0
                                             THEN Some(objects.val.v[1]) ELSE None,
                          !.detectionComplete = TRUE]
        ELSE IF objects.thrown.shape = "nullish"
             THEN [done EXCEPT !.error =
                       Some(Unexpected(TypeErrorOf(objects.thrown).message))]
        ELSE [done EXCEPT !.error = MessageOf(objects.thrown)]

\* Faulty variant of runObjectDetection: the last object is selected.
runObjectDetectionSelectingLast(u, objects) ==
    LET done == [u EXCEPT !.isLoading = FALSE, !.loadingMessage = NoMessage]
    IN  IF objects.ok
        THEN IF Length(objects.val) > 0
             THEN [done EXCEPT !.detectedObjects = objects.val.v,
                               !.selectedObject =
                                   Some(objects.val.v[Length(objects.val)]),
                               !.detectionComplete = TRUE]
             ELSE [done EXCEPT !.error = Some(NoObjects)]
        ELSE IF objects.thrown.shape = "nullish"
             THEN [done EXCEPT !.error =
                       Some(Unexpected(TypeErrorOf(objects.thrown).message))]
        ELSE [done EXCEPT !.error = MessageOf(objects.thrown)]

\* The component state u after runObjectDetection's try, catch and finally
\* blocks, objects being what detectObjects returned or threw; and after the
\* catch block of processUploadedFile when the former catch block throws.
runObjectDetection(u, objects) ==
    LET done == [u EXCEPT !.isLoading = FALSE, !.loadingMessage = NoMessage]
    IN  IF objects.ok
        THEN IF Length(objects.val) > 0
             THEN [done EXCEPT !.detectedObjects = objects.val.v,
                               !.selectedObject = Some(objects.val.v[1]),
                               !.detectionComplete = TRUE]
             ELSE [done EXCEPT !.error = Some(NoObjects)]
        ELSE IF objects.thrown.shape = "nullish"
             THEN [done EXCEPT !.error =
                       Some(Unexpected(TypeErrorOf(objects.thrown).message))]
        ELSE [done EXCEPT !.error = MessageOf(objects.thrown)]

\* From the settling of the detection request to the end of the handler.
DetectResponse(o) ==
    /\ pc = "detect"
    /\ ui' = runObjectDetection(ui, detectObjects(o))
    /\ pc' = "idle"
    /\ inFlight' = inFlight - 1
    /\ request' = None
    /\ parse' = DetectParse(o)
    /\ sent' = [sent EXCEPT !.outstanding = @ - 1]
    /\ UNCHANGED <<imagePart, gf, chainHist, gifExport>>

\* A click on an object tag of the results section.
SelectObject(n) ==
    /\ ui.detectionComplete
    /\ ~ui.isLoading
    /\ n \in 1..Len(ui.detectedObjects)
    /\ ui' = [ui EXCEPT !.selectedObject = Some(ui.detectedObjects[n])]
    /\ UNCHANGED <<pc, inFlight, imagePart, gf, request, hist, gifExport>>

\* Faulty variant of StartOver: only the frames and their prompts are cleared.
StartOverClearingFramesOnly ==
    /\ ui.detectionComplete \/ ui.generatedFrames # <<>>
    /\ ~ui.isLoading
    /\ ui' = [ui EXCEPT !.generatedFrames = <<>>, !.animationPrompts = <<>>]
    /\ NewSession
    /\ UNCHANGED <<pc, inFlight, imagePart, gf, request>>

\* Faulty variant of StartOver: the button is there while loading too.
StartOverWhileLoading ==
    /\ ui.detectionComplete \/ ui.generatedFrames # <<>> \/ ui.isLoading
    /\ ui' = ResetState
    /\ NewSession
    /\ UNCHANGED <<pc, inFlight, imagePart, gf, request>>

\* The Start Over button of the results section.
StartOver ==
    /\ ui.detectionComplete \/ ui.generatedFrames # <<>>
    /\ ~ui.isLoading
    /\ ui' = ResetState
    /\ NewSession
    /\ UNCHANGED <<pc, inFlight, imagePart, gf, request>>

--------------------------------------------------------------------------
\* Generation: prompt sequencing, then the frame chain.

\* handleGenerateAnimation up to its first suspension. The button is rendered
\* in the results section while no frames exist.
handleGenerateAnimation ==
    /\ ui.detectionComplete
    /\ ~ui.isLoading
    /\ ui.generatedFrames = <<>>
    /\ IF ~(IsSome(ui.selectedObject) /\ Truthy(Get(ui.selectedObject)))
          \/ ~IsSome(ui.uploadedImage)
       THEN /\ ui' = [ui EXCEPT !.error = Some(SelectFirst)]
            /\ UNCHANGED <<pc, inFlight, imagePart, gf, request, hist, gifExport>>
       ELSE /\ ui' = [ui EXCEPT !.isLoading = TRUE, !.error = None]
            /\ pc' = "generateRead"
            /\ inFlight' = inFlight + 1
            /\ imagePart' = None
            /\ frameLog' = <<>>
            /\ tries' = NoTries
            /\ lastFrame' = NoFrame
            /\ run' = [NoRun EXCEPT !.state = "running"]
            /\ sent' = [sent EXCEPT !.prompts = 0, !.frames = 0]
            /\ UNCHANGED <<gf, request, parse, gifExport>>

\* From the resolution of fileToGenerativePart to the request of
\* generatePrompts.
PromptsRequest ==
    /\ pc = "generateRead"
    /\ imagePart' = Some(fileToGenerativePart(Get(ui.uploadedImage)))
    /\ ui' = [ui EXCEPT !.loadingMessage = GeneratingIdeas]
    /\ request' = Request("prompts", 0, JNull, fileToGenerativePart(Get(ui.uploadedImage)))
    /\ pc' = "prompts"
    /\ sent' = [sent EXCEPT !.prompts = @ + 1, !.outstanding = @ + 1]
    /\ UNCHANGED <<inFlight, gf, chainHist, parse, gifExport>>

\* Faulty variant of generatePrompts: an empty array is returned as a prompt
\* list.
generatePromptsAnyArray(o) ==
    IF o.kind = "reject" THEN Threw(o.thrown)
    ELSE IF ~IsSome(o.text) THEN Threw(ErrorOf(NoTextProperty))
    ELSE LET parsedResponse == JSONParse(ExtractPrompts(Get(o.text)))
         IN  IF ~parsedResponse.ok THEN Threw(ErrorOf(BadPromptJson))
             ELSE IF ~IsArray(parsedResponse.val) THEN Threw(ErrorOf(NotPromptArray))
             ELSE Returned(parsedResponse.val)

\* generatePrompts from the settling of its request on.
generatePrompts(o) ==
    IF o.kind = "reject" THEN Threw(o.thrown)
    ELSE IF ~IsSome(o.text) THEN Threw(ErrorOf(NoTextProperty))
    ELSE LET parsedResponse == JSONParse(ExtractPrompts(Get(o.text)))
         IN  IF ~parsedResponse.ok THEN Threw(ErrorOf(BadPromptJson))
             ELSE IF ~IsArray(parsedResponse.val) \/ Length(parsedResponse.val) = 0
                  THEN Threw(ErrorOf(NotPromptArray))
             ELSE Returned(parsedResponse.val)

\* Faulty variant of GenerateCatch: the failure resets the selection.
GenerateCatchDroppingSelection(e, how) ==
    /\ ui' = [ui EXCEPT !.error = IF e.shape = "nullish" THEN @ ELSE MessageOf(e),
                        !.selectedObject = None,
                        !.isLoading = FALSE,
                        !.loadingMessage = NoMessage]
    /\ pc' = "idle"
    /\ inFlight' = inFlight - 1
    /\ request' = None
    /\ gf' = NoChain
    /\ run' = [run EXCEPT !.state = how, !.thrown = e]
    /\ sent' = [sent EXCEPT !.outstanding = @ - 1]

\* The catch and finally blocks of handleGenerateAnimation for the thrown
\* value e. Reading the message of null or undefined throws out of the catch
\* block, past setError.
GenerateCatch(e, how) ==
    /\ ui' = [ui EXCEPT !.error = IF e.shape = "nullish" THEN @ ELSE MessageOf(e),
                        !.isLoading = FALSE,
                        !.loadingMessage = NoMessage]
    /\ pc' = "idle"
    /\ inFlight' = inFlight - 1
    /\ request' = None
    /\ gf' = NoChain
    /\ run' = [run EXCEPT !.state = how, !.thrown = e]
    /\ sent' = [sent EXCEPT !.outstanding = @ - 1]

\* Faulty variant of IsRateLimit: every error counts as a rate limit.
EveryErrorRateLimit(message) == TRUE

\* The rate-limit indicator test of the catch block.
IsRateLimit(message) ==
    Includes(message, "429") \/ Includes(message, "RESOURCE_EXHAUSTED")

\* Faulty variant of NextDelay: the delay is not doubled.
ConstantDelay(delay) == delay

NextDelay(delay) == delay * 2

\* The start of generateFrames.
StartChain(initialImagePart, prompts) ==
    [NoChain EXCEPT !.prompts = prompts,
                    !.currentImagePart = initialImagePart,
                    !.lastSuccessfulBase64 = initialImagePart.data]

\* The head of the for loop's body: the locals of one frame.
BeginFrame(g) ==
    [g EXCEPT !.attempt = 0, !.delay = InitialDelay,
              !.newMimeType = g.currentImagePart.mimeType]

\* Faulty variant of FrameRequest: every request carries the first prompt.
FrameRequestFirstPrompt(g) == Request("frame", g.i + 1, g.prompts[1], g.currentImagePart)

\* The request of one attempt: the current chain image and prompts[i].
FrameRequest(g) == Request("frame", g.i + 1, g.prompts[g.i + 1], g.currentImagePart)

\* Faulty variant of FrameTry: an inlineData part counts as an image whatever
\* its data.
FrameTryAnyInlineData(o) ==
    IF o.kind = "reject" THEN o.thrown
    ELSE IF IsSome(o.image) THEN NothingThrown
    ELSE ErrorOf(<<"Failed to generate image data in response. Reason: ",
                   IF IsSome(o.finishReason) THEN Get(o.finishReason)
                   ELSE "Unknown reason">>)

\* What the try block throws once its request settled as o: the rejection,
\* an Error when the response has no inlineData part with data, or nothing.
FrameTry(o) ==
    IF o.kind = "reject" THEN o.thrown
    ELSE IF IsSome(o.image) /\ Get(o.image).data # EmptyData THEN NothingThrown
    ELSE ErrorOf(<<"Failed to generate image data in response. Reason: ",
                   IF IsSome(o.finishReason) THEN Get(o.finishReason)
                   ELSE "Unknown reason">>)

\* Faulty variant of CatchBlock: an error that is no rate limit is thrown on.
CatchBlockRethrow(e, attempt) ==
    IF e.shape # "Error" THEN "throw"
    ELSE IF IsRateLimit(e.message)
         THEN IF attempt >= maxRetries THEN "fallback" ELSE "retry"
    ELSE "throw"

\* Faulty variant of CatchBlock: a rate-limited third attempt is retried too.
CatchBlockRetryingOnceMore(e, attempt) ==
    IF e.shape # "Error" THEN "throw"
    ELSE IF IsRateLimit(e.message)
         THEN IF attempt > maxRetries THEN "fallback" ELSE "retry"
    ELSE "fallback"

\* The catch block of the retry loop for the thrown value e, attempt already
\* incremented: what becomes of the frame.
CatchBlock(e, attempt) ==
    IF e.shape # "Error" THEN "throw"
    ELSE IF IsRateLimit(e.message)
         THEN IF attempt >= maxRetries THEN "fallback" ELSE "retry"
    ELSE "fallback"

\* Faulty variant of FallbackData: the fallback is always the original image.
FallbackToOriginal(g) == Get(imagePart).data

\* The payload a frame that could not be generated is given.
FallbackData(g) == g.lastSuccessfulBase64

\* The tail of the for loop's body: the frame is pushed and becomes the
\* current chain image.
PushFrame(g, newBase64Data, newMimeType) ==
    [g EXCEPT !.allFrames = Append(@, newBase64Data),
              !.currentImagePart = base64ToGenerativePart(newBase64Data, newMimeType),
              !.i = @ + 1]

\* Faulty variant of Display: the prompts are displayed without the label of
\* the original image.
DisplayWithoutLabel(u, initialFrameBase64, prompts, subsequentFrames) ==
    [u EXCEPT !.animationPrompts = prompts,
              !.generatedFrames = <<initialFrameBase64>> \o subsequentFrames,
              !.isLoading = FALSE,
              !.loadingMessage = NoMessage]

\* What handleGenerateAnimation displays once generateFrames returned.
Display(u, initialFrameBase64, prompts, subsequentFrames) ==
    [u EXCEPT !.animationPrompts = <<OriginalImage>> \o prompts,
              !.generatedFrames = <<initialFrameBase64>> \o subsequentFrames,
              !.isLoading = FALSE,
              !.loadingMessage = NoMessage]

\* A request has settled and the chain goes on from locals g: to the first
\* request of the next frame, or, all prompts used, back to
\* handleGenerateAnimation and to its end.
Continue(g) ==
    IF g.i < Len(g.prompts)
    THEN /\ gf' = BeginFrame(g)
         /\ ui' = [ui EXCEPT !.loadingMessage = CreatingFrame(g.i + 2, Len(g.prompts) + 1)]
         /\ request' = FrameRequest(BeginFrame(g))
         /\ tries' = [NoTries EXCEPT !.requests = 1]
         /\ pc' = "frame"
         /\ sent' = [sent EXCEPT !.frames = @ + 1]
         /\ UNCHANGED <<inFlight, run>>
    ELSE /\ ui' = Display(ui, Get(imagePart).data, g.prompts, g.allFrames)
         /\ gf' = NoChain
         /\ request' = None
         /\ tries' = NoTries
         /\ pc' = "idle"
         /\ inFlight' = inFlight - 1
         /\ run' = [run EXCEPT !.state = "returned", !.prompts = g.prompts,
                                !.frames = g.allFrames]
         /\ sent' = [sent EXCEPT !.outstanding = @ - 1]

\* For the histories: generatePrompts applied to the settled request o.
PromptsParse(o) ==
    [stage |-> "prompts", text |-> o.text,
     jsonText |-> IF IsSome(o.text) THEN ExtractPrompts(Get(o.text)) ELSE None,
     parsedResponse |-> IF IsSome(o.text) THEN JSONParse(ExtractPrompts(Get(o.text)))
                        ELSE Fail,
     result |-> generatePrompts(o)]

\* From the settling of the prompt request to the first frame request, or
\* to the end of the handler when generatePrompts throws.
PromptsResponse(o) ==
    /\ pc = "prompts"
    /\ LET prompts == generatePrompts(o)
       IN  IF prompts.ok
           THEN Continue(StartChain(Get(imagePart), prompts.val.v))
           ELSE GenerateCatch(prompts.thrown, "rejected") /\ UNCHANGED tries
    /\ parse' = PromptsParse(o)
    /\ UNCHANGED <<imagePart, frameLog, lastFrame, gifExport>>

\* Faulty variant of Succeed: the MIME type of the response is not taken
\* over.
SucceedKeepingMimeType(g, image) ==
    PushFrame([g EXCEPT !.lastSuccessfulBase64 = image.data], image.data, g.newMimeType)

\* The locals once the frame is generated as image, and once it falls back.
Succeed(g, image) ==
    PushFrame([g EXCEPT !.lastSuccessfulBase64 = image.data], image.data, image.mimeType)
Fallback(g) == PushFrame(g, FallbackData(g), g.newMimeType)

\* For the histories: why an attempt failed. Its source is the response
\* ("absent": no image data in it) or the rejection of the request; it is a
\* "rateLimit" failure when the finishReason, or the rejection's message,
\* names 429 or RESOURCE_EXHAUSTED, "odd" when the rejection carries no
\* message, and "other" otherwise.
Failure(o) ==
    LET words == IF o.kind = "reject" THEN o.thrown.message ELSE o.finishReason
    IN  [source |-> IF o.kind = "reject" THEN "reject" ELSE "absent",
         cause |-> IF o.kind = "reject" /\ o.thrown.shape # "Error" THEN "odd"
                   ELSE IF \E p \in 1..Len(words) :
                              words[p] \in {"429", "RESOURCE_EXHAUSTED"}
                        THEN "rateLimit"
                   ELSE "other"]

\* From the settling of a frame request to the next suspension: the next
\* frame's request, the backoff wait, or the end of the handler.
FrameResponse(o) ==
    /\ pc = "frame"
    /\ LET e == FrameTry(o)
           todo == CatchBlock(e, gf.attempt + 1)
           failed == [gf EXCEPT !.attempt = @ + 1]
           Log(status, g) ==
               Append(frameLog, [status |-> status, prompt |-> Get(request).prompt,
                                 input |-> Get(request).image,
                                 payload |-> g.allFrames[Len(g.allFrames)]])
           Ended(status, why, got) ==
               [frame |-> Get(request).frame, status |-> status,
                requests |-> tries.requests, waits |-> tries.waits,
                failed |-> why, got |-> got]
       IN  IF e.shape = "none"
           THEN /\ Continue(Succeed(gf, Get(o.image)))
                /\ frameLog' = Log("Success", Succeed(gf, Get(o.image)))
                /\ lastFrame' = Ended("Success", NoFailure, Get(o.image))
           ELSE IF todo = "throw"
           THEN /\ GenerateCatch(TypeErrorOf(e), "escaped")
                /\ tries' = [tries EXCEPT !.failed = Failure(o)]
                /\ UNCHANGED <<frameLog, lastFrame>>
           ELSE IF todo = "retry"
           THEN /\ gf' = failed
                /\ tries' = [tries EXCEPT !.waits = Append(@, gf.delay),
                                          !.failed = Failure(o)]
                /\ request' = None
                /\ pc' = "backoff"
                /\ sent' = [sent EXCEPT !.outstanding = @ - 1]
                /\ UNCHANGED <<ui, inFlight, frameLog, lastFrame, run>>
           ELSE /\ Continue(Fallback(failed))
                /\ frameLog' = Log("FallbackUsed", Fallback(failed))
                /\ lastFrame' = Ended("FallbackUsed", Failure(o), NoImage)
    /\ UNCHANGED <<imagePart, parse, gifExport>>

\* The backoff wait has elapsed: the delay doubles and the loop issues the
\* frame's next request.
BackoffElapsed ==
    /\ pc = "backoff"
    /\ gf' = [gf EXCEPT !.delay = NextDelay(@)]
    /\ request' = FrameRequest(gf)
    /\ tries' = [tries EXCEPT !.requests = @ + 1, !.failed = NoFailure]
    /\ pc' = "frame"
    /\ sent' = [sent EXCEPT !.frames = @ + 1, !.outstanding = @ + 1]
    /\ UNCHANGED <<ui, inFlight, imagePart, frameLog, lastFrame, run, parse, gifExport>>

--------------------------------------------------------------------------
\* The GIF export.

\* The mount effect's fetch of the worker script succeeds: the ref holds its
\* URL from now on.
WorkerFetched ==
    /\ gifExport.workerUrl = "fetching"
    /\ gifExport' = [gifExport EXCEPT !.workerUrl = "ready"]
    /\ UNCHANGED <<ui, pc, inFlight, imagePart, gf, request, hist>>

\* The fetch fails, or its response is not ok: the catch block of the effect
\* sets the error and the ref stays null.
WorkerFetchFails ==
    /\ gifExport.workerUrl = "fetching"
    /\ gifExport' = [gifExport EXCEPT !.workerUrl = "failed"]
    /\ ui' = [ui EXCEPT !.error = Some(WorkerFailed)]
    /\ UNCHANGED <<pc, inFlight, imagePart, gf, request, hist>>

\* The sequence s without its element k.
Without(s, k) == SubSeq(s, 1, k - 1) \o SubSeq(s, k + 1, Len(s))

\* A click on Download as GIF, up to the await of the images. The button is
\* rendered in the results section while frames exist and is disabled while
\* isGeneratingGif.
handleDownloadGif ==
    /\ ui.detectionComplete \/ ui.generatedFrames # <<>>
    /\ ~ui.isLoading
    /\ ui.generatedFrames # <<>>
    /\ ~ui.isGeneratingGif
    /\ IF gifExport.workerUrl # "ready"
       THEN /\ ui' = [ui EXCEPT !.error = Some(WorkerLoading)]
            /\ UNCHANGED gifExport
       ELSE /\ Len(gifExport.encodings) < MaxEncodings
            /\ ui' = [ui EXCEPT !.isGeneratingGif = TRUE]
            /\ gifExport' = [gifExport EXCEPT !.encodings = Append(@, Encoding("loading"))]
    /\ UNCHANGED <<pc, inFlight, imagePart, gf, request, hist>>

\* The images of encoding k have loaded: the frames are added to the encoder
\* and gif.render() starts it.
ImagesLoaded(k) ==
    /\ k \in 1..Len(gifExport.encodings)
    /\ gifExport.encodings[k].stage = "loading"
    /\ gifExport' = [gifExport EXCEPT !.encodings[k].stage = "rendering"]
    /\ UNCHANGED <<ui, pc, inFlight, imagePart, gf, request, hist>>

\* An image of encoding k does not load, or the canvas or the encoder
\* throws: the catch block of handleDownloadGif.
GifProcessingFails(k) ==
    /\ k \in 1..Len(gifExport.encodings)
    /\ gifExport.encodings[k].stage = "loading"
    /\ ui' = [ui EXCEPT !.error = Some(GifFailed), !.isGeneratingGif = FALSE]
    /\ gifExport' = [gifExport EXCEPT !.encodings = Without(@, k)]
    /\ UNCHANGED <<pc, inFlight, imagePart, gf, request, hist>>

\* The encoder's 'finished' event of encoding k: the download is triggered
\* and isGeneratingGif is cleared.
GifFinished(k) ==
    /\ k \in 1..Len(gifExport.encodings)
    /\ gifExport.encodings[k].stage = "rendering"
    /\ ui' = [ui EXCEPT !.isGeneratingGif = FALSE]
    /\ gifExport' = [gifExport EXCEPT !.encodings = Without(@, k),
                                      !.downloaded = Some(gifExport.encodings[k].session)]
    /\ UNCHANGED <<pc, inFlight, imagePart, gf, request, hist>>

--------------------------------------------------------------------------

Next ==
    \/ \E file \in Files : handleImageUpload(file)
    \/ \E file \in Files : handleDrop(file)
    \/ FileReadFails
    \/ DetectRequest
    \/ pc = "detect" /\ \E text \in DetectTexts : DetectResponse(TextResponse(text))
    \/ pc = "detect" /\ \E e \in Rejections : DetectResponse(Rejection(e))
    \/ \E n \in 1..MaxObjects : SelectObject(n)
    \/ StartOver
    \/ handleGenerateAnimation
    \/ PromptsRequest
    \/ pc = "prompts" /\ \E text \in PromptTexts : PromptsResponse(TextResponse(text))
    \/ pc = "prompts" /\ \E e \in Rejections : PromptsResponse(Rejection(e))
    \/ pc = "frame" /\ \E o \in FrameOutcomes(gf.i + 1) : FrameResponse(o)
    \/ BackoffElapsed

Spec == Init /\ [][Next]_vars

\* The service settles the request that is outstanding: it resolves it or
\* rejects it.
RequestSettles ==
    \/ pc = "detect" /\ \E text \in DetectTexts : DetectResponse(TextResponse(text))
    \/ pc = "detect" /\ \E e \in Rejections : DetectResponse(Rejection(e))
    \/ pc = "prompts" /\ \E text \in PromptTexts : PromptsResponse(TextResponse(text))
    \/ pc = "prompts" /\ \E e \in Rejections : PromptsResponse(Rejection(e))
    \/ pc = "frame" /\ \E o \in FrameOutcomes(gf.i + 1) : FrameResponse(o)

\* The application with its GIF export. The answers of the service are
\* drawn from fewer: a list of one or two objects or prose, a list of one
\* prompt or prose, a rate-limit rejection, and for a frame its image or that
\* rejection.
ExportDetectTexts == {Some(ObjectArray(1)), Some(ObjectArray(2)), Some(Prose)}
ExportPromptTexts == {Some(PromptArray(1)), Some(Prose)}
ExportRejections == {ErrorOf(<<"got status: ", "429", " Too Many Requests">>)}
ExportFrameOutcomes(n) ==
    { ImageResponse(Some(base64ToGenerativePart(GenData(n), MimePng)), Some("STOP")) }
    \cup { Rejection(e) : e \in ExportRejections }

ExportNext ==
    \/ \E file \in Files : handleImageUpload(file)
    \/ \E file \in Files : handleDrop(file)
    \/ FileReadFails
    \/ DetectRequest
    \/ pc = "detect" /\ \E text \in ExportDetectTexts : DetectResponse(TextResponse(text))
    \/ pc = "detect" /\ \E e \in ExportRejections : DetectResponse(Rejection(e))
    \/ \E n \in 1..MaxObjects : SelectObject(n)
    \/ StartOver
    \/ handleGenerateAnimation
    \/ PromptsRequest
    \/ pc = "prompts" /\ \E text \in ExportPromptTexts : PromptsResponse(TextResponse(text))
    \/ pc = "prompts" /\ \E e \in ExportRejections : PromptsResponse(Rejection(e))
    \/ pc = "frame" /\ \E o \in ExportFrameOutcomes(gf.i + 1) : FrameResponse(o)
    \/ BackoffElapsed
    \/ WorkerFetched
    \/ WorkerFetchFails
    \/ handleDownloadGif
    \/ \E k \in 1..MaxEncodings : ImagesLoaded(k)
    \/ \E k \in 1..MaxEncodings : GifProcessingFails(k)
    \/ \E k \in 1..MaxEncodings : GifFinished(k)

ExportSpec == Init /\ [][ExportNext]_vars

\* The pipeline when every request is settled in the end and every timer of
\* the backoff fires: an await on either is resumed.
FairSpec == Spec /\ WF_vars(RequestSettles) /\ WF_vars(BackoffElapsed)

--------------------------------------------------------------------------
\* The extraction and the parsing of detectObjects and of generatePrompts on
\* their own: a response text is drawn, and either function is applied to
\* it. parse.text is the text drawn while parse.stage is "none".

ParseInit ==
    /\ ui = ResetState
    /\ pc = "idle"
    /\ inFlight = 0
    /\ imagePart = None
    /\ gf = NoChain
    /\ request = None
    /\ frameLog = <<>>
    /\ tries = NoTries
    /\ lastFrame = NoFrame
    /\ run = NoRun
    /\ \E text \in ResponseTexts : parse = [NoParse EXCEPT !.text = Some(text)]
    /\ sent = NoSent
    /\ gifExport = NoExport

ParseDetect ==
    /\ parse.stage = "none"
    /\ parse' = DetectParse(TextResponse(parse.text))
    /\ UNCHANGED <<ui, pc, inFlight, imagePart, gf, request, chainHist, sent, gifExport>>

ParsePrompts ==
    /\ parse.stage = "none"
    /\ parse' = PromptsParse(TextResponse(parse.text))
    /\ UNCHANGED <<ui, pc, inFlight, imagePart, gf, request, chainHist, sent, gifExport>>

ParseNext == ParseDetect \/ ParsePrompts

ParseSpec == ParseInit /\ [][ParseNext]_vars

--------------------------------------------------------------------------
\* Properties of the frame chain.

\* A frame request is in flight.
FrameRequested == IsSome(request) /\ Get(request).stage = "frame"

\* The chain is between its first request and its end.
ChainRunning == pc \in {"frame", "backoff"}

\* The wait the backoff policy prescribes before attempt k + 1 of a frame.
PrescribedWait(k) == IF k = 1 THEN 2000 ELSE 4000

\* A payload that is neither undefined nor the empty string.
IsImageData(data) == data # Undefined /\ data # EmptyData

C2_NothingEscapes ==
    /\ run.state # "escaped"
    /\ (ChainRunning \/ run.state = "returned") => ui.error = None

\* The payload emitted for the frame before frame k: the original image data
\* when k = 1.
PayloadBefore(k) == IF k = 1 THEN Get(imagePart).data ELSE frameLog[k - 1].payload

\* C3: a frame that ends in fallback is given the payload of the frame
\* before it (the original image data for the first frame), and every
\* request for the frame after it carries that payload as its image.
C3_FallbackCorrect ==
    \A k \in 1..Len(frameLog) :
        frameLog[k].status = "FallbackUsed" =>
            /\ frameLog[k].payload = PayloadBefore(k)
            /\ k < Len(frameLog) => frameLog[k + 1].input.data = frameLog[k].payload
            /\ (FrameRequested /\ Get(request).frame = k + 1) =>
                  Get(request).image.data = frameLog[k].payload

\* A frame fell back after a generated frame, and a request for the frame
\* after it is in flight.
C3_Witness ==
    /\ FrameRequested
    /\ \E k \in 2..Len(frameLog) :
          /\ frameLog[k].status = "FallbackUsed"
          /\ frameLog[k - 1].status = "Success"
          /\ Get(request).frame = k + 1

\* C4: within one frame the waits are 2000 ms before the second attempt and
\* 4000 ms before the third, at most three requests are issued, no wait
\* follows the third attempt, and every frame starts with attempt 0 and a
\* delay of 2000 ms whatever the frames before it spent.
C4_Backoff ==
    /\ tries.requests <= 3
    /\ lastFrame.requests <= 3
    /\ Len(tries.waits) <= 2
    /\ \A k \in 1..Len(tries.waits) : tries.waits[k] = PrescribedWait(k)
    /\ \A k \in 1..Len(lastFrame.waits) : lastFrame.waits[k] = PrescribedWait(k)
    /\ pc = "frame" => Len(tries.waits) = tries.requests - 1
    /\ pc = "backoff" => Len(tries.waits) = tries.requests
    /\ lastFrame.frame > 0 => Len(lastFrame.waits) = lastFrame.requests - 1
    /\ ChainRunning => gf.attempt = Len(tries.waits)
    /\ (pc = "frame" /\ tries.requests = 1) => gf.attempt = 0 /\ gf.delay = 2000

\* The frame before spent its three attempts and fell back; the current
\* frame waits before its own second attempt.
C4_Witness ==
    /\ lastFrame.status = "FallbackUsed"
    /\ lastFrame.requests = 3
    /\ lastFrame.waits = <<2000, 4000>>
    /\ pc = "backoff"
    /\ tries.waits = <<2000>>

C6_Sequencing ==
    /\ FrameRequested =>
          /\ Get(request).frame = Len(frameLog) + 1
          /\ Len(gf.allFrames) = Len(frameLog)
          /\ Get(request).prompt = gf.prompts[Len(frameLog) + 1]
    /\ ChainRunning =>
          \A k \in 1..Len(frameLog) :
              /\ frameLog[k].prompt = gf.prompts[k]
              /\ frameLog[k].payload = gf.allFrames[k]
    /\ run.state = "returned" =>
          /\ Len(frameLog) = Len(run.prompts)
          /\ \A k \in 1..Len(frameLog) :
                /\ frameLog[k].prompt = run.prompts[k]
                /\ frameLog[k].payload = run.frames[k]

\* A chain of several prompts has returned.
C6_Witness ==
    /\ run.state = "returned"
    /\ Len(run.frames) = NUM_FRAMES_TO_GENERATE
    /\ frameLog[2].status = "Success"

\* C7: a frame that is generated after one or two rate-limited attempts is
\* given the generated image, and that image, with the MIME type the service
\* returned, is the image of the next frame's requests.
C7_RetryThenSuccess ==
    (lastFrame.status = "Success" /\ lastFrame.requests >= 2) =>
        /\ IsImageData(lastFrame.got.data)
        /\ Len(frameLog) = lastFrame.frame
        /\ frameLog[lastFrame.frame].payload = lastFrame.got.data
        /\ ChainRunning => gf.allFrames[lastFrame.frame] = lastFrame.got.data
        /\ run.state = "returned" => run.frames[lastFrame.frame] = lastFrame.got.data
        /\ FrameRequested => Get(request).image = lastFrame.got

\* A frame was generated at its third attempt and a request for the next
\* frame is in flight.
C7_Witness ==
    /\ lastFrame.status = "Success"
    /\ lastFrame.requests = 3
    /\ FrameRequested
    /\ Get(request).frame = lastFrame.frame + 1

\* C8: a response without image data counts as a failed attempt: no frame
\* payload is ever undefined or empty, and the frame falls back at once, or
\* is retried up to the third attempt when the finishReason names a rate
\* limit, as after a rejected request.
C8_AbsentImageFails ==
    /\ \A k \in 1..Len(gf.allFrames) : IsImageData(gf.allFrames[k])
    /\ \A k \in 1..Len(ui.generatedFrames) : IsImageData(ui.generatedFrames[k])
    /\ \A k \in 1..Len(run.frames) : IsImageData(run.frames[k])
    /\ tries.failed.source = "absent" =>
          /\ tries.failed.cause = "rateLimit"
          /\ pc = "backoff"
          /\ tries.requests < 3
    /\ lastFrame.failed.source = "absent" =>
          /\ lastFrame.status = "FallbackUsed"
          /\ frameLog[lastFrame.frame].payload = PayloadBefore(lastFrame.frame)
          /\ lastFrame.failed.cause = "rateLimit" => lastFrame.requests = 3

\* A frame fell back on a third response without image data whose
\* finishReason names a rate limit.
C8_Witness ==
    /\ lastFrame.failed.source = "absent"
    /\ lastFrame.failed.cause = "rateLimit"
    /\ lastFrame.requests = 3

--------------------------------------------------------------------------
\* Properties of what is displayed.

\* C9: the displayed prompts and frames are aligned: as many prompts as
\* frames; when there are any, the first frame is the original image data
\* and the first prompt "Original Image", and every later frame is the chain
\* output for the prompt at its index.
C9_IndexAligned ==
    /\ Len(ui.animationPrompts) = Len(ui.generatedFrames)
    /\ ui.generatedFrames # <<>> =>
          /\ IsSome(ui.uploadedImage)
          /\ ui.generatedFrames[1] = Get(ui.uploadedImage).base64
          /\ ui.animationPrompts[1] = OriginalImage
          /\ Len(ui.generatedFrames) = Len(frameLog) + 1
          /\ \A k \in 1..Len(frameLog) :
                /\ ui.generatedFrames[k + 1] = frameLog[k].payload
                /\ ui.animationPrompts[k + 1] = frameLog[k].prompt

\* Frames are displayed, a generated one and a fallen-back one among them.
C9_Witness ==
    /\ Len(ui.generatedFrames) >= 3
    /\ \E j, k \in 1..Len(frameLog) :
          frameLog[j].status = "Success" /\ frameLog[k].status = "FallbackUsed"

--------------------------------------------------------------------------
\* Properties of the detection.

\* detectObjects has returned, and nothing was parsed since.
Detected == parse.stage = "detect" /\ parse.result.ok

RECURSIVE Count(_, _)
\* How often the character c occurs in the text s.
Count(s, c) ==
    IF s = <<>> THEN 0 ELSE (IF s[1] = c THEN 1 ELSE 0) + Count(Tail(s), c)

\* The k-th object an answer of the service lists.
ListedObject(k) == JObj(<<[k |-> <<"n", "a", "m", "e">>, val |-> JStr(<<"o", DigitChar(k)>>)]>>)

\* C11 as stated: detectObjects returns at most 5 objects and detectedObjects
\* holds at most 5, whatever array the response holds.
C11_AtMostFive ==
    /\ Len(ui.detectedObjects) <= ObjectsAskedFor
    /\ Detected => Length(parse.result.val) <= ObjectsAskedFor

\* C11 amended: detectObjects returns the array of the response whole, with
\* as many objects as the response lists, and detectedObjects holds no more
\* than the response of the session's detection listed.
C11_AsManyAsAnswered ==
    /\ Detected =>
          /\ Length(parse.result.val) = Count(Get(parse.text), "{")
          /\ \A k \in 1..Length(parse.result.val) : parse.result.val.v[k] = ListedObject(k)
          /\ ui.detectedObjects = parse.result.val.v
    /\ sent.detect = 0 => ui.detectedObjects = <<>>

\* A response of more objects than asked for is displayed whole.
C11_Witness ==
    /\ Detected
    /\ Len(ui.detectedObjects) = ObjectsAskedFor + 1
    /\ ui.detectionComplete

\* The detection response parsed last held an empty array or a value that is
\* no array.
NothingDetected ==
    /\ parse.stage = "detect"
    /\ parse.parsedResponse.ok
    /\ ~IsArray(parse.parsedResponse.val) \/ Length(parse.parsedResponse.val) = 0

\* C12: a detection response that parses to an empty array or to no array
\* ends the detection in an error: the error is set, detection is not
\* complete, no object is listed or selected, and neither a prompt request
\* nor a frame request is or can be issued for that upload.
C12_NothingDetectedIsAnError ==
    NothingDetected =>
        /\ ~parse.result.ok \/ Length(parse.result.val) = 0
        /\ IsSome(ui.error)
        /\ ~ui.detectionComplete
        /\ ui.detectedObjects = <<>>
        /\ ui.selectedObject = None
        /\ ui.generatedFrames = <<>>
        /\ ~ui.isLoading
        /\ pc = "idle"
        /\ request = None
        /\ sent.prompts = 0 /\ sent.frames = 0
        /\ ~ENABLED handleGenerateAnimation

\* A detection has answered with an empty array and the user is told that
\* no objects were found.
C12_Witness ==
    /\ NothingDetected
    /\ IsArray(parse.parsedResponse.val)
    /\ ui.error = Some(NoObjects)

\* C13: when detectObjects returns a non-empty array, detectedObjects holds
\* the objects the response lists, in its order, and the detection ends with
\* the first of them selected; the selection stays one of them afterwards.
C13_FirstSelected ==
    /\ [](Detected /\ Length(parse.result.val) > 0 =>
            /\ ui.detectionComplete
            /\ Len(ui.detectedObjects) = Count(Get(parse.text), "{")
            /\ \A k \in 1..Len(ui.detectedObjects) : ui.detectedObjects[k] = ListedObject(k)
            /\ \E k \in 1..Len(ui.detectedObjects) :
                  ui.selectedObject = Some(ui.detectedObjects[k]))
    /\ [][(pc = "detect" /\ pc' = "idle"
            /\ parse'.result.ok /\ Length(parse'.result.val) > 0) =>
              ui'.selectedObject = Some(ListedObject(1))]_vars

\* A detection of several objects has ended, the first one selected.
C13_Witness ==
    /\ Detected
    /\ Len(ui.detectedObjects) = MaxObjects
    /\ ui.selectedObject = Some(ListedObject(1))
    /\ ui.detectedObjects[MaxObjects] = ListedObject(MaxObjects)

--------------------------------------------------------------------------
\* Properties of the requests.

\* The operation in flight has not read the uploaded file yet.
ReadingFile == pc \in {"detectRead", "generateRead", "readHung"}

--------------------------------------------------------------------------
\* Properties of the upload.

\* A file that is no image is picked or dropped.
InvalidUpload ==
    \E file \in Files :
        /\ ~StartsWith(file.type, ImagePrefix)
        /\ handleImageUpload(file) \/ handleDrop(file)

\* C15: the upload of a file whose type does not start with "image/" issues
\* no request and changes nothing but the error message: the uploaded image,
\* the objects, the selection, the prompts, the frames and the flags stay
\* as they are.
C15_InvalidUploadChangesErrorOnly ==
    [][InvalidUpload =>
          /\ ui' = [ui EXCEPT !.error = ui'.error]
          /\ ui.isLoading \/ ui'.error = Some(InvalidFile)
          /\ UNCHANGED <<pc, inFlight, imagePart, gf, request, sent>>]_vars

\* A file that is no image was uploaded after a detection that failed: the
\* image of that detection is still there.
C15_Witness ==
    /\ ui.error = Some(InvalidFile)
    /\ IsSome(ui.uploadedImage)
    /\ sent.detect = 1
    /\ ~ui.isLoading

--------------------------------------------------------------------------
\* Properties of the prompt sequencing.

\* The prompt request settled last was rejected, or its response carried no
\* text that JSON.parse accepts, or one that parses to no array or to an
\* empty one.
NoPrompts ==
    /\ parse.stage = "prompts"
    /\ \/ ~parse.parsedResponse.ok
       \/ ~IsArray(parse.parsedResponse.val)
       \/ Length(parse.parsedResponse.val) = 0

--------------------------------------------------------------------------
\* Properties of the extraction and the parsing.

\* One of the two functions has been applied to the text parse.text.
Applied == parse.stage # "none" /\ IsSome(parse.text)

\* Where the first json fence of the text s opens (0: nowhere), and the
\* text between it and the first closing fence after it.
FirstFence(s) ==
    LET opens == {p \in 1..Len(s) : FenceAt(s, p).found}
    IN  IF opens = {} THEN 0 ELSE Least(opens)
FencedInterior(s) == Get(FenceAt(s, FirstFence(s)).g1)

\* The text s holds a JSON array inside a json fence.
HasFencedArray(s) ==
    /\ FirstFence(s) > 0
    /\ JSONParse(Some(FencedInterior(s))).ok
    /\ IsArray(JSONParse(Some(FencedInterior(s))).val)

\* C17: for every response text that holds a JSON array inside a json fence,
\* the text handed to JSON.parse is the interior of the fence, also when a
\* bracket pair stands in prose before the fence.
C17_FencePreferred ==
    (Applied /\ HasFencedArray(Get(parse.text))) =>
        parse.jsonText = Some(FencedInterior(Get(parse.text)))

\* Where the first '[' of the text s stands (0: nowhere).
FirstBracket(s) ==
    LET opens == {p \in 1..Len(s) : s[p] = "["}
    IN  IF opens = {} THEN 0 ELSE Least(opens)

\* The first '[' of the text s opens a JSON array; and that array's text,
\* from the '[' to its balanced ']'.
HasBalancedArray(s) == FirstBracket(s) > 0 /\ ParseValue(s, FirstBracket(s)).ok
BalancedArray(s) == SubSeq(s, FirstBracket(s), ParseValue(s, FirstBracket(s)).pos - 1)

\* C18: for every response text without a fence that holds a JSON array,
\* bare or in prose, the text handed to JSON.parse runs from the first '['
\* to its balanced ']' and parses to that array, also when the array holds
\* a nested array or a ']' inside a string.
C18_BalancedArray ==
    (Applied /\ FirstFence(Get(parse.text)) = 0 /\ HasBalancedArray(Get(parse.text))) =>
        /\ parse.jsonText = Some(BalancedArray(Get(parse.text)))
        /\ parse.parsedResponse.ok
        /\ parse.parsedResponse.val = ParseValue(Get(parse.text),
                                                 FirstBracket(Get(parse.text))).val

\* No '[' of the text s opens a JSON array.
HoldsNoArray(s) == \A p \in 1..Len(s) : s[p] = "[" => ~ParseValue(s, p).ok

\* The text piece is a stretch of the text s.
IsPieceOf(piece, s) == \E p \in 1..(Len(s) + 1) : MatchAt(s, p, piece)

\* C19: a function that returns, returns an array, the one JSON.parse made
\* of a stretch of the response text; it throws, with its message for an
\* invalid response, when that stretch is not valid JSON, and it throws when
\* the response text holds no JSON array at all.
C19_NoDefault ==
    Applied =>
        /\ parse.result.ok =>
              /\ IsArray(parse.result.val)
              /\ IsSome(parse.jsonText)
              /\ IsPieceOf(Get(parse.jsonText), Get(parse.text))
              /\ JSONParse(parse.jsonText).ok
              /\ parse.result.val = JSONParse(parse.jsonText).val
        /\ ~JSONParse(parse.jsonText).ok =>
              /\ ~parse.result.ok
              /\ parse.result.thrown \in {ErrorOf(BadDetectJson), ErrorOf(BadPromptJson)}
        /\ HoldsNoArray(Get(parse.text)) => ~parse.result.ok

\* A function has thrown on prose that holds no array.
C19_Witness ==
    /\ Applied
    /\ HoldsNoArray(Get(parse.text))
    /\ parse.text = Some(Prose \o <<"p", "1">>)
    /\ parse.result.thrown = ErrorOf(BadDetectJson)

--------------------------------------------------------------------------
\* Properties of the interleaving.

\* C20: at most one detection or generate action is in flight and at most
\* one request is outstanding; while an operation is in flight the file
\* input, Start Over and Generate are not available and a drop does nothing,
\* so an operation starts only when none is in flight, and the locals of the
\* chain change only in steps of the generate action in flight.
C20_OneAtATime ==
    /\ [](/\ inFlight <= 1
          /\ sent.outstanding <= 1
          /\ inFlight = 1 <=> pc # "idle"
          /\ sent.outstanding = 1 <=> IsSome(request)
          /\ IsSome(request) => inFlight = 1
          /\ inFlight = 0 => gf = NoChain
          /\ inFlight = 1 =>
                /\ ui.isLoading
                /\ ~ENABLED StartOver
                /\ ~ENABLED handleGenerateAnimation
                /\ \A file \in Files : ~ENABLED handleImageUpload(file))
    /\ [][/\ inFlight' > inFlight => inFlight = 0 /\ sent.outstanding = 0
          /\ inFlight = 1 => \A file \in Files : handleDrop(file) => UNCHANGED vars
          /\ gf' # gf => pc \in {"prompts", "frame", "backoff"}]_vars

\* A generate action is in flight, its second or a later frame requested.
C20_Witness ==
    /\ inFlight = 1
    /\ pc = "frame"
    /\ sent.outstanding = 1
    /\ Len(frameLog) >= 1
    /\ ui.isLoading

--------------------------------------------------------------------------
\* Properties of the session state.

\* C24: whenever detection is complete there is an uploaded image, a
\* non-empty list of detected objects and a selected object that is one of
\* them; frames exist only when detection is complete; and once frames exist
\* they stay as they are until the state is reset, no generate action being
\* available meanwhile.
C24_SessionInvariants ==
    /\ [](/\ ui.detectionComplete =>
                /\ IsSome(ui.uploadedImage)
                /\ ui.detectedObjects # <<>>
                /\ IsSome(ui.selectedObject)
                /\ \E n \in 1..Len(ui.detectedObjects) :
                       ui.detectedObjects[n] = Get(ui.selectedObject)
          /\ ui.generatedFrames # <<>> =>
                /\ ui.detectionComplete
                /\ ~ENABLED handleGenerateAnimation)
    /\ [][ui.generatedFrames # <<>> =>
             \/ ui'.generatedFrames = ui.generatedFrames
             \/ ui' = ResetState]_vars

\* Frames are displayed for the second of two detected objects.
C24_Witness ==
    /\ ui.generatedFrames # <<>>
    /\ ui.detectionComplete
    /\ Len(ui.detectedObjects) = 2
    /\ ui.selectedObject = Some(ui.detectedObjects[2])
    /\ ui.detectedObjects[1] # ui.detectedObjects[2]

\* The steps in which the operation in flight goes on: the file is read, or
\* its request is settled, or its wait elapses.
Resumes ==
    \/ DetectRequest
    \/ PromptsRequest
    \/ \E text \in DetectTexts : pc = "detect" /\ DetectResponse(TextResponse(text))
    \/ \E text \in PromptTexts : pc = "prompts" /\ PromptsResponse(TextResponse(text))
    \/ \E o \in FrameOutcomes(gf.i + 1) : pc = "frame" /\ FrameResponse(o)
    \/ BackoffElapsed

\* C25: isLoading is true exactly while a detection or a generate action is
\* in flight, the loading message is empty whenever none is, and an
\* operation in flight can always go on, so that the loading state is left
\* once its requests are settled.
C25_LoadingNeverStuck ==
    /\ ui.isLoading <=> inFlight = 1
    /\ inFlight = 0 => ui.loadingMessage = NoMessage
    /\ ui.isLoading => ENABLED Resumes

--------------------------------------------------------------------------
\* Termination of the chain.

\* Every frame of the returned chain ended in Success or in FallbackUsed.
AllFramesEnded ==
    /\ run.state = "returned"
    /\ Len(frameLog) = Len(run.prompts)
    /\ \A k \in 1..Len(frameLog) : frameLog[k].status \in {"Success", "FallbackUsed"}

\* C23: when every request is settled and every backoff wait elapses, a
\* chain that has started leads to the return of generateFrames, every frame
\* of it having ended in Success or FallbackUsed, and a generate action
\* whose request is out leads to its end, isLoading false and the frames
\* displayed or an error set.
C23_ChainCompletes ==
    /\ ChainRunning ~> AllFramesEnded
    /\ pc \in {"prompts", "frame", "backoff"} ~>
          /\ pc = "idle"
          /\ ~ui.isLoading
          /\ ui.generatedFrames # <<>> \/ IsSome(ui.error)

--------------------------------------------------------------------------
\* Properties of the GIF export.

\* C26: at most one GIF encoding is in progress, isGeneratingGif is true
\* exactly while one is, and no download is triggered in a session by an
\* encoding that was started before the reset that began the session.
C26_OneEncoding ==
    /\ Len(gifExport.encodings) <= 1
    /\ ui.isGeneratingGif <=> Len(gifExport.encodings) = 1
    /\ gifExport.downloaded # Some("earlier")

--------------------------------------------------------------------------
\* Properties of the reset.

\* resetState runs in the step: Start Over, or an upload that is processed
\* and accepted.
ResetRuns ==
    \/ StartOver
    \/ \E file \in Files :
          /\ handleImageUpload(file) \/ handleDrop(file)
          /\ StartsWith(file.type, ImagePrefix)
          /\ vars' # vars

\* The step writes a result of the pipeline: a list of objects, of prompts
\* or of frames, or an error at the end of an operation.
WritesResult ==
    \/ ui'.detectedObjects \notin {ui.detectedObjects, <<>>}
    \/ ui'.animationPrompts \notin {ui.animationPrompts, <<>>}
    \/ ui'.generatedFrames \notin {ui.generatedFrames, <<>>}
    \/ pc # "idle" /\ pc' = "idle" /\ IsSome(ui'.error)

\* The request that is outstanding was issued since resetState ran last: the
\* requests of its stage are counted from there.
IssuedThisSession ==
    /\ IsSome(request)
    /\ sent.outstanding = 1
    /\ Get(request).stage = "detect" => sent.detect = 1
    /\ Get(request).stage = "prompts" => sent.prompts = 1
    /\ Get(request).stage = "frame" => sent.frames >= 1

Accepted(file) == StartsWith(file.type, ImagePrefix) /\ ~ui.isLoading

\* The step clears one of the fields that only resetState clears.
ClearsSome ==
    \/ IsSome(ui.uploadedImage) /\ ui'.uploadedImage = None
    \/ IsSome(ui.selectedObject) /\ ui'.selectedObject = None
    \/ ui.detectedObjects # <<>> /\ ui'.detectedObjects = <<>>
    \/ ui.animationPrompts # <<>> /\ ui'.animationPrompts = <<>>
    \/ ui.generatedFrames # <<>> /\ ui'.generatedFrames = <<>>
    \/ ui.detectionComplete /\ ~ui'.detectionComplete

\* C22: Start Over leaves the state of resetState, every field cleared, in
\* one step; an accepted upload leaves that state with only isLoading and
\* the new image set on top of it, in one step; a step that clears any of
\* the fields clears them all; and while there is no uploaded image nothing
\* but an error message is set.
C22_ResetClearsAll ==
    /\ [][StartOver => ui' = ResetState]_vars
    /\ [][\A file \in Files :
             (handleImageUpload(file) \/ handleDrop(file)) /\ Accepted(file) =>
                ui' = [ResetState EXCEPT !.isLoading = TRUE,
                                         !.uploadedImage = Some(file)]]_vars
    /\ [][ClearsSome => ui' = ResetState]_vars
    /\ [](ui.uploadedImage = None => [ui EXCEPT !.error = None] = ResetState)

\* Start Over was clicked while a GIF was being produced: every field is
\* cleared, isGeneratingGif too.
C22_Witness ==
    /\ ui = ResetState
    /\ Len(gifExport.encodings) = 1
    /\ gifExport.encodings[1].session = "earlier"

====
